---- MODULE Spec2Model ----
(***************************************************************************)
(* Lost & Found API: the token service (jwt_wrapper.py) and the request    *)
(* handlers over the lost_and_found table (main.py).                       *)
(*                                                                         *)
(* The store is modelled at statement granularity: every SQL statement is  *)
(* atomic, a handler that issues two statements (the existence check and   *)
(* the UPDATE of update_request_status) is two steps, and no table lock    *)
(* is held between them (spec section 5).                                  *)
(***************************************************************************)
EXTENDS Integers, Sequences, FiniteSets, TLC

VARIABLES
    table,      \* the lost_and_found table: lnf_id -> row
    nextId,     \* next value of the SERIAL sequence behind lnf_id
    now,        \* the wall clock
    inflight,   \* update_request_status calls between their SELECT and their UPDATE
    issued,     \* the credentials generate_token has returned, with the call's arguments
    assigned,   \* history: the lnf_id values INSERT ... RETURNING has returned, ever and
                \* since the table was last created
    req,        \* the request that was answered last
    resp        \* the answer to it

vars == <<table, nextId, now, inflight, issued, assigned, req, resp>>

-----------------------------------------------------------------------------
(* Bounds of the model *)

MaxRows == 2        \* rows inserted between two schema resets
AuthMaxRows == 1    \* the same, in the specification of the token service
MaxTime == 1        \* the clock runs 0..MaxTime
MaxInflight == 2    \* status updates in flight at once

-----------------------------------------------------------------------------
(* Configuration and enums *)

None == "<None>"                  \* Python None: dict.get on an absent key

SECRET_KEY == "secret-key"
CLIENT_CREDENTIALS == [client_id |-> "Cid", client_secret |-> "Sec"]
TOKEN_CUTOFF_DATE == 1            \* on the model's clock

RequestType == {"lost", "found"}
RequestStatus == {"pending", "approved", "rejected"}
UserRole == {"student", "faculty", "admin", "alumni", "public"}
DescMinLength == 1
DescMaxLength == 2000

\* str.lower on the strings the model uses
Lower(s) ==
    CASE s = "Cid" -> "cid"
      [] s = "CID" -> "cid"
      [] s = "Sec" -> "sec"
      [] s = "SEC" -> "sec"
      [] OTHER -> s

\* Python truthiness of a claim value (None and "" are falsy)
Truthy(v) == v # None /\ v # ""

\* dict.get(k) and dict.get(k, default)
Get(d, k) == IF k \in DOMAIN d THEN d[k] ELSE None
GetDefault(d, k, default) == IF k \in DOMAIN d THEN d[k] ELSE default

\* dict.update: the right operand's keys win
Update(d, e) == e @@ d

EmptyDict == [k \in {} |-> None]

-----------------------------------------------------------------------------
(* jose.jwt as the code uses it: HS256 with one symmetric key *)

JwtEncode(payload, key) == [wellformed |-> TRUE, payload |-> payload, sig |-> key]

\* jwt.decode raises JWTError on a malformed token or a signature made with another key
JwtDecode(token, key) ==
    IF token.wellformed /\ token.sig = key
    THEN [ok |-> TRUE, payload |-> token.payload]
    ELSE [ok |-> FALSE, payload |-> EmptyDict]

NoToken == [wellformed |-> FALSE, payload |-> EmptyDict, sig |-> ""]

-----------------------------------------------------------------------------
(* Token service *)

\* generate_token with the client secret left out of the payload
GenerateTokenNoSecret(client_id, client_secret, user_data, t) ==
    IF t >= TOKEN_CUTOFF_DATE
    THEN [outcome |-> "Expired", token |-> NoToken]
    ELSE IF client_id # CLIENT_CREDENTIALS.client_id
            \/ client_secret # CLIENT_CREDENTIALS.client_secret
    THEN [outcome |-> "Unauthorized", token |-> NoToken]
    ELSE [outcome |-> "ok",
          token |-> JwtEncode(Update([client_id |-> client_id], user_data), SECRET_KEY)]

\* generate_token with the cutoff instant itself still allowed (> for >=)
GenerateTokenLateCutoff(client_id, client_secret, user_data, t) ==
    IF t > TOKEN_CUTOFF_DATE
    THEN [outcome |-> "Expired", token |-> NoToken]
    ELSE IF client_id # CLIENT_CREDENTIALS.client_id
            \/ client_secret # CLIENT_CREDENTIALS.client_secret
    THEN [outcome |-> "Unauthorized", token |-> NoToken]
    ELSE [outcome |-> "ok",
          token |-> JwtEncode(Update([client_id |-> client_id, client_secret |-> client_secret],
                                     user_data), SECRET_KEY)]

\* generate_token: the cutoff is tested first, then the client pair, exactly
GenerateToken(client_id, client_secret, user_data, t) ==
    IF t >= TOKEN_CUTOFF_DATE
    THEN [outcome |-> "Expired", token |-> NoToken]
    ELSE IF client_id # CLIENT_CREDENTIALS.client_id
            \/ client_secret # CLIENT_CREDENTIALS.client_secret
    THEN [outcome |-> "Unauthorized", token |-> NoToken]
    ELSE [outcome |-> "ok",
          token |-> JwtEncode(Update([client_id |-> client_id, client_secret |-> client_secret],
                                     user_data), SECRET_KEY)]

\* the client check with "or" between the two comparisons
ClientMatchesEither(decoded) ==
    /\ Truthy(Get(decoded, "client_id"))
    /\ Truthy(Get(decoded, "client_secret"))
    /\ \/ Lower(Get(decoded, "client_id")) = Lower(CLIENT_CREDENTIALS.client_id)
       \/ Lower(Get(decoded, "client_secret")) = Lower(CLIENT_CREDENTIALS.client_secret)

\* the client check of token_required: both present and truthy, equal ignoring case
ClientMatches(decoded) ==
    /\ Truthy(Get(decoded, "client_id"))
    /\ Truthy(Get(decoded, "client_secret"))
    /\ Lower(Get(decoded, "client_id")) = Lower(CLIENT_CREDENTIALS.client_id)
    /\ Lower(Get(decoded, "client_secret")) = Lower(CLIENT_CREDENTIALS.client_secret)

\* token_required up to the call of the wrapped route. The Authorization header is
\* modelled by auth_header.split(" "); <<>> stands for a missing (or empty) header.
TokenRequired(header) ==
    IF header = <<>>
    THEN [code |-> 401, decoded |-> EmptyDict]            \* header missing
    ELSE IF Len(header) < 2
    THEN [code |-> 401, decoded |-> EmptyDict]            \* IndexError on split(" ")[1]
    ELSE LET d == JwtDecode(header[2], SECRET_KEY) IN
         IF ~d.ok
         THEN [code |-> 401, decoded |-> EmptyDict]       \* JWTError
         ELSE IF ~ClientMatches(d.payload)
         THEN [code |-> 401, decoded |-> EmptyDict]       \* token mismatch
         ELSE [code |-> 200, decoded |-> d.payload]

\* verify_token that refuses every credential from the cutoff on
VerifyTokenUntilCutoff(token) ==
    LET d == JwtDecode(token, SECRET_KEY) IN
    IF ~d.ok \/ now >= TOKEN_CUTOFF_DATE
    THEN [code |-> 401, decoded |-> EmptyDict]
    ELSE IF Get(d.payload, "client_id") # CLIENT_CREDENTIALS.client_id
            \/ Get(d.payload, "client_secret") # CLIENT_CREDENTIALS.client_secret
    THEN [code |-> 401, decoded |-> EmptyDict]
    ELSE [code |-> 200, decoded |-> d.payload]

\* verify_token, the dependency: the client pair is compared exactly
VerifyToken(token) ==
    LET d == JwtDecode(token, SECRET_KEY) IN
    IF ~d.ok
    THEN [code |-> 401, decoded |-> EmptyDict]
    ELSE IF Get(d.payload, "client_id") # CLIENT_CREDENTIALS.client_id
            \/ Get(d.payload, "client_secret") # CLIENT_CREDENTIALS.client_secret
    THEN [code |-> 401, decoded |-> EmptyDict]
    ELSE [code |-> 200, decoded |-> d.payload]

\* get_user_from_token behind token_required (request.state.decoded_token is set)
UserData(decoded) ==
    [user_id    |-> Get(decoded, "user_id"),
     user_role  |-> Get(decoded, "user_role"),
     name       |-> Get(decoded, "name"),
     email      |-> Get(decoded, "email"),
     department |-> GetDefault(decoded, "department", "N/A")]

GetUserFromToken(decoded) ==
    LET user_data == UserData(decoded) IN
    IF Truthy(user_data.user_id) /\ Truthy(user_data.user_role)
       /\ Truthy(user_data.name) /\ Truthy(user_data.email)
    THEN [code |-> 200, user_data |-> user_data]
    ELSE [code |-> 400, user_data |-> user_data]

\* What a protected route sees before its own body runs: the decorator, then
\* get_user_from_token.
Authenticate(header) ==
    LET t == TokenRequired(header) IN
    IF t.code # 200
    THEN [code |-> t.code, user_data |-> UserData(EmptyDict)]
    ELSE GetUserFromToken(t.decoded)

-----------------------------------------------------------------------------
(* Inputs: identity claims, presented credentials, request bodies *)

Alice == [user_id |-> "u1", user_role |-> "student", name |-> "A", email |-> "a@x.com"]
Bob == [user_id |-> "u2", user_role |-> "admin", name |-> "B", email |-> "b@x.com",
        department |-> "CS"]

IdentityClaims == {Alice, Bob}

\* identity claims whose user_role is no UserRole: generate_token takes any dict
Guest == [user_id |-> "u3", user_role |-> "guest", name |-> "G", email |-> "g@x.com"]

Bearer(token) == <<"Bearer", token>>

\* credentials the token service mints for the configured client
MintedHeaders == {Bearer(JwtEncode(Update(CLIENT_CREDENTIALS, u), SECRET_KEY)) : u \in IdentityClaims}

\* other Authorization headers a client can send
OtherHeaders ==
    { <<>>,                                                       \* no header
      <<"Bearer">>,                                               \* no token part
      Bearer(NoToken),                                            \* not a JWT
      Bearer(JwtEncode(Update(CLIENT_CREDENTIALS, Alice), "other-key")),   \* bad signature
      Bearer(JwtEncode(Alice, SECRET_KEY)),                       \* no client pair
      Bearer(JwtEncode(Update([client_id |-> "Bad", client_secret |-> "Sec"], Alice),
                       SECRET_KEY)),                              \* other client
      Bearer(JwtEncode(Update([client_id |-> "CID", client_secret |-> "SEC"], Bob),
                       SECRET_KEY)),                              \* same client, other case
      Bearer(JwtEncode(CLIENT_CREDENTIALS, SECRET_KEY)),          \* no identity claims
      Bearer(JwtEncode(Update(CLIENT_CREDENTIALS,
                              [user_id |-> "u1", user_role |-> "student", name |-> "A"]),
                       SECRET_KEY)),                              \* no email claim
      Bearer(JwtEncode(Update(CLIENT_CREDENTIALS,
                              [user_id |-> "", user_role |-> "student", name |-> "A",
                               email |-> "a@x.com"]),
                       SECRET_KEY)) }                             \* empty user_id

Headers == MintedHeaders \cup OtherHeaders

\* LostFoundRequest: description (modelled by its length) of 1..2000 characters,
\* type a RequestType
ValidBody(body) ==
    /\ body.description >= DescMinLength
    /\ body.description <= DescMaxLength
    /\ body.type \in RequestType

LostWallet == [description |-> 1, type |-> "lost"]
FoundKeys == [description |-> 2000, type |-> "found"]

\* What the clients of the store's specification send: minted credentials or none.
StoreInputs ==
    [headers  |-> MintedHeaders \cup {<<>>},
     bodies   |-> {LostWallet, FoundKeys, [description |-> 0, type |-> "lost"]},
     types    |-> {None, "lost", "found"},
     statuses |-> RequestStatus,
     ids      |-> 1..(MaxRows + 1),
     store    |-> BOOLEAN,
     maxRows  |-> MaxRows]

\* What the clients of the token service's specification send: every kind of
\* credential, those generate_token has returned included, valid and invalid
\* parameters; the store does not fail.
AuthInputs ==
    [headers  |-> Headers \cup {Bearer(i.token) : i \in issued},
     bodies   |-> {LostWallet, [description |-> 2001, type |-> "found"],
                   [description |-> 1, type |-> "stolen"]},
     types    |-> {None, "lost", "stolen"},
     statuses |-> {"approved", "closed"},
     ids      |-> 1..(AuthMaxRows + 1),
     store    |-> {TRUE},
     maxRows  |-> AuthMaxRows]

\* What the clients of the interleaved specification send.
RaceInputs ==
    [headers  |-> {Bearer(JwtEncode(Update(CLIENT_CREDENTIALS, Alice), SECRET_KEY))},
     bodies   |-> {LostWallet},
     types    |-> {None},
     statuses |-> {"approved", "rejected"},
     ids      |-> 1..(MaxRows + 1),
     store    |-> BOOLEAN,
     maxRows  |-> MaxRows]

-----------------------------------------------------------------------------
(* Responses *)

Resp(code, outcome, data) ==
    [code |-> code, outcome |-> outcome, data |-> data,
     token |-> NoToken, decoded |-> EmptyDict]

TokenResp(code, outcome, token, decoded) ==
    [code |-> code, outcome |-> outcome, data |-> <<>>,
     token |-> token, decoded |-> decoded]

\* The failure a protected route answers before it touches the store, if any:
\* FastAPI validates the declared parameters before it calls the route, then the
\* decorator and get_user_from_token run.
Rejection(valid, header) ==
    IF ~valid THEN Resp(422, "ValidationError", <<>>)
    ELSE LET a == Authenticate(header) IN
         IF a.code = 401 THEN Resp(401, "Unauthorized", <<>>)
         ELSE IF a.code = 400 THEN Resp(400, "IncompleteIdentity", <<>>)
         ELSE Resp(200, "ok", <<>>)

Rows == {table[i] : i \in DOMAIN table}

\* ORDER BY created_at DESC over a set of rows: every order the sort may return
OrderByCreatedAtDesc(S) ==
    { s \in [1..Cardinality(S) -> S] :
        /\ \A i, j \in 1..Cardinality(S) : i # j => s[i] # s[j]
        /\ \A i, j \in 1..Cardinality(S) : i < j => s[i].created_at >= s[j].created_at }

-----------------------------------------------------------------------------
(* Statements *)

\* get_all_requests without the status condition
ApprovedRowsAnyStatus(type) ==
    { r \in Rows : type # None => r.type = type }

\* get_all_requests: WHERE status = 'approved' [AND type = :type]
ApprovedRows(type) ==
    { r \in Rows : r.status = "approved" /\ (type # None => r.type = type) }

\* get_my_requests without its WHERE clause
OwnRowsAll(user_id) == Rows

\* get_my_requests: WHERE user_id = :user_id
OwnRows(user_id) == { r \in Rows : r.user_id = user_id }

\* submit_request that never copies the department claim
NewRowNoDepartment(user_data, body) ==
    [lnf_id |-> nextId,
     user_id |-> user_data.user_id,
     user_role |-> user_data.user_role,
     name |-> user_data.name,
     email |-> user_data.email,
     department |-> "N/A",
     description |-> body.description,
     type |-> body.type,
     status |-> "pending",
     created_at |-> now]

\* submit_request over a sequence that never advances
NewRowSameId(user_data, body) ==
    [lnf_id |-> 1,
     user_id |-> user_data.user_id,
     user_role |-> user_data.user_role,
     name |-> user_data.name,
     email |-> user_data.email,
     department |-> user_data.department,
     description |-> body.description,
     type |-> body.type,
     status |-> "pending",
     created_at |-> now]

\* the values submit_request inserts; lnf_id comes from the SERIAL sequence
NewRow(user_data, body) ==
    [lnf_id |-> nextId,
     user_id |-> user_data.user_id,
     user_role |-> user_data.user_role,
     name |-> user_data.name,
     email |-> user_data.email,
     department |-> user_data.department,
     description |-> body.description,
     type |-> body.type,
     status |-> "pending",
     created_at |-> now]

\* the UPDATE never committed
SetStatusNotCommitted(request_id, status) == table

\* the UPDATE without its WHERE clause
SetStatusAllRows(request_id, status) ==
    [id \in DOMAIN table |-> [table[id] EXCEPT !.status = status]]

\* UPDATE ... SET status = :status WHERE lnf_id = :request_id
SetStatus(request_id, status) ==
    [table EXCEPT ![request_id] = [@ EXCEPT !.status = status]]

-----------------------------------------------------------------------------
(* Initial state: the schema exists and holds no row *)

NoRequest == [op |-> "none", header |-> <<>>]

Init ==
    /\ table = <<>>
    /\ nextId = 1
    /\ now = 0
    /\ inflight = {}
    /\ issued = {}
    /\ assigned = [ever |-> {}, current |-> {}]
    /\ req = NoRequest
    /\ resp = Resp(200, "ok", <<>>)

-----------------------------------------------------------------------------
(* Handlers *)

\* POST /api/v1/lost-found/submit
SubmitWith(In) ==
    \E header \in In.headers, body \in In.bodies, store_ok \in In.store :
        LET rej == Rejection(ValidBody(body), header)
            row == NewRow(Authenticate(header).user_data, body)
        IN
        /\ nextId <= In.maxRows
        /\ req' = [op |-> "submit", header |-> header, body |-> body]
        /\ IF rej.code # 200
           THEN /\ resp' = rej
                /\ UNCHANGED <<table, nextId, assigned>>
           ELSE IF ~store_ok
           THEN /\ resp' = Resp(500, "StoreError", <<>>)
                /\ UNCHANGED <<table, nextId, assigned>>
           ELSE /\ table' = (nextId :> row) @@ table
                /\ nextId' = nextId + 1
                /\ assigned' = [ever |-> assigned.ever \cup {row.lnf_id},
                                current |-> assigned.current \cup {row.lnf_id}]
                /\ resp' = Resp(201, "ok", <<row>>)
        /\ UNCHANGED <<now, inflight, issued>>

\* GET /api/v1/lost-found/all
ListApprovedWith(In) ==
    \E header \in In.headers, type \in In.types, store_ok \in In.store :
        LET rej == Rejection(type \in RequestType \cup {None}, header) IN
        /\ req' = [op |-> "list_approved", header |-> header, type |-> type]
        /\ IF rej.code # 200
           THEN resp' = rej
           ELSE IF ~store_ok
           THEN resp' = Resp(500, "StoreError", <<>>)
           ELSE \E data \in OrderByCreatedAtDesc(ApprovedRows(type)) :
                    resp' = Resp(200, "ok", data)
        /\ UNCHANGED <<table, nextId, now, inflight, issued, assigned>>

\* GET /api/v1/lost-found/my-requests
ListOwnWith(In) ==
    \E header \in In.headers, store_ok \in In.store :
        LET rej == Rejection(TRUE, header)
            user_id == Authenticate(header).user_data.user_id
        IN
        /\ req' = [op |-> "list_own", header |-> header]
        /\ IF rej.code # 200
           THEN resp' = rej
           ELSE IF ~store_ok
           THEN resp' = Resp(500, "StoreError", <<>>)
           ELSE \E data \in OrderByCreatedAtDesc(OwnRows(user_id)) :
                    resp' = Resp(200, "ok", data)
        /\ UNCHANGED <<table, nextId, now, inflight, issued, assigned>>

\* PUT /api/v1/admin/update-status/{request_id}: what the handler answers before
\* its UPDATE runs, if anything: validation, the credential, then
\* SELECT lnf_id, status ... WHERE lnf_id = :request_id
UpdateRejection(r, store_ok) ==
    LET rej == Rejection(r.status \in RequestStatus, r.header) IN
    IF rej.code # 200 THEN rej
    ELSE IF ~store_ok THEN Resp(500, "StoreError", <<>>)
    ELSE IF r.request_id \notin DOMAIN table THEN Resp(404, "NotFound", <<>>)
    ELSE Resp(200, "ok", <<>>)

\* ... and from UPDATE ... RETURNING to the response. When the UPDATE matches no
\* row, fetchone() is None and dict(updated_row._mapping) raises AttributeError
\* after the commit, which the handler turns into a 500.
UpdateStatement(r, store_ok) ==
    IF ~store_ok
    THEN /\ resp' = Resp(500, "StoreError", <<>>)
         /\ UNCHANGED table
    ELSE IF r.request_id \in DOMAIN table
    THEN /\ table' = SetStatus(r.request_id, r.status)
         /\ resp' = Resp(200, "ok", <<table'[r.request_id]>>)
    ELSE /\ resp' = Resp(500, "AttributeError", <<>>)
         /\ UNCHANGED table

UpdateRequest(header, request_id, status) ==
    [op |-> "update_status", header |-> header,
     request_id |-> request_id, status |-> status]

\* the handler with no other request between its two statements (a failure of the
\* store in either statement gives the same answer and leaves the table alone)
UpdateStatusWith(In) ==
    \E header \in In.headers, request_id \in In.ids, status \in In.statuses,
       store_ok \in In.store :
        LET r == UpdateRequest(header, request_id, status)
            rej == UpdateRejection(r, store_ok)
        IN
        /\ req' = r
        /\ IF rej.code # 200
           THEN /\ resp' = rej
                /\ UNCHANGED table
           ELSE UpdateStatement(r, store_ok)
        /\ UNCHANGED <<nextId, now, inflight, issued, assigned>>

\* the handler as two steps that other requests may separate
UpdateCheckWith(In) ==
    \E header \in In.headers, request_id \in In.ids, status \in In.statuses,
       store_ok \in In.store :
        LET r == UpdateRequest(header, request_id, status)
            rej == UpdateRejection(r, store_ok)
        IN
        /\ IF rej.code # 200
           THEN /\ req' = r
                /\ resp' = rej
                /\ UNCHANGED inflight
           ELSE /\ Cardinality(inflight) < MaxInflight
                /\ inflight' = inflight \cup {r}
                /\ UNCHANGED <<req, resp>>
        /\ UNCHANGED <<table, nextId, now, issued, assigned>>

UpdateApplyWith(In) ==
    \E r \in inflight, store_ok \in In.store :
        /\ inflight' = inflight \ {r}
        /\ req' = r
        /\ UpdateStatement(r, store_ok)
        /\ UNCHANGED <<nextId, now, issued, assigned>>

\* POST /api/v1/setup/create-table: DROP TABLE IF EXISTS; CREATE TABLE (lnf_id SERIAL ...)
CreateSchemaWith(In) ==
    \E store_ok \in In.store :
        /\ req' = [op |-> "create_table", header |-> <<>>]
        /\ IF ~store_ok
           THEN /\ resp' = Resp(500, "StoreError", <<>>)
                /\ UNCHANGED <<table, nextId, assigned>>
           ELSE /\ table' = <<>>
                /\ nextId' = 1
                /\ assigned' = [assigned EXCEPT !.current = {}]
                /\ resp' = Resp(200, "ok", <<>>)
        /\ UNCHANGED <<now, inflight, issued>>

\* what a caller of generate_token keeps: the arguments, the time and the credential
Issued(client_id, client_secret, user_data, token) ==
    [client_id |-> client_id, client_secret |-> client_secret,
     user_data |-> user_data, at |-> now, token |-> token]

\* a direct call of generate_token(client_id, client_secret, user_data)
Issue ==
    \E client_id \in {"Cid", "CID", "Bad"}, client_secret \in {"Sec", "SEC"},
       user_data \in IdentityClaims \cup {EmptyDict, Guest} :
        LET g == GenerateToken(client_id, client_secret, user_data, now) IN
        /\ req' = [op |-> "issue", header |-> <<>>, client_id |-> client_id,
                   client_secret |-> client_secret, user_data |-> user_data, at |-> now]
        /\ resp' = TokenResp(IF g.outcome = "ok" THEN 200
                             ELSE IF g.outcome = "Unauthorized" THEN 401 ELSE 500,
                             g.outcome, g.token, EmptyDict)
        /\ issued' = IF g.outcome = "ok"
                     THEN issued \cup {Issued(client_id, client_secret, user_data, g.token)}
                     ELSE issued
        /\ UNCHANGED <<table, nextId, now, inflight, assigned>>

\* POST /api/v1/auth/generate-test-token: the configured client pair, identity from
\* the query (department defaults to "N/A"); every exception becomes a 500
GenerateTestToken ==
    \E u \in IdentityClaims :
        LET user_data == [user_id |-> u.user_id, user_role |-> u.user_role,
                          name |-> u.name, email |-> u.email,
                          department |-> GetDefault(u, "department", "N/A")]
            g == GenerateToken(CLIENT_CREDENTIALS.client_id,
                               CLIENT_CREDENTIALS.client_secret, user_data, now)
        IN
        /\ req' = [op |-> "generate_test_token", header |-> <<>>,
                   user_data |-> user_data, at |-> now]
        /\ resp' = IF g.outcome = "ok"
                   THEN TokenResp(200, "ok", g.token, JwtDecode(g.token, SECRET_KEY).payload)
                   ELSE TokenResp(500, g.outcome, NoToken, EmptyDict)
        /\ issued' = IF g.outcome = "ok"
                     THEN issued \cup {Issued(CLIENT_CREDENTIALS.client_id,
                                              CLIENT_CREDENTIALS.client_secret,
                                              user_data, g.token)}
                     ELSE issued
        /\ UNCHANGED <<table, nextId, now, inflight, assigned>>

\* a route guarded by Depends(verify_token) receives a bearer token
Verify ==
    \E header \in {h \in Headers : Len(h) = 2} \cup {Bearer(i.token) : i \in issued} :
        LET v == VerifyToken(header[2]) IN
        /\ req' = [op |-> "verify_token", header |-> header, at |-> now]
        /\ resp' = TokenResp(v.code, IF v.code = 200 THEN "ok" ELSE "Unauthorized",
                             NoToken, v.decoded)
        /\ UNCHANGED <<table, nextId, now, inflight, issued, assigned>>

\* time passes
Tick ==
    /\ now < MaxTime
    /\ now' = now + 1
    /\ UNCHANGED <<table, nextId, inflight, issued, assigned, req, resp>>

-----------------------------------------------------------------------------
(* Spec: the store and its handlers, one request at a time *)

Submit == SubmitWith(StoreInputs)
ListApproved == ListApprovedWith(StoreInputs)
ListOwn == ListOwnWith(StoreInputs)
UpdateStatus == UpdateStatusWith(StoreInputs)
CreateSchema == CreateSchemaWith(StoreInputs)

Next ==
    \/ Submit
    \/ ListApproved
    \/ ListOwn
    \/ UpdateStatus
    \/ CreateSchema
    \/ Tick

Spec == Init /\ [][Next]_vars

-----------------------------------------------------------------------------
(* SpecRace: writers of the store, interleaved at statement granularity *)

RaceSubmit == SubmitWith(RaceInputs)
RaceUpdateCheck == UpdateCheckWith(RaceInputs)
RaceUpdateApply == UpdateApplyWith(RaceInputs)
RaceCreateSchema == CreateSchemaWith(RaceInputs)

NextRace ==
    \/ RaceSubmit
    \/ RaceUpdateCheck
    \/ RaceUpdateApply
    \/ RaceCreateSchema

SpecRace == Init /\ [][NextRace]_vars

-----------------------------------------------------------------------------
(* SpecAuth: the token service and the protected routes, for every kind of *)
(* credential                                                              *)

AuthSubmit == SubmitWith(AuthInputs)
AuthListApproved == ListApprovedWith(AuthInputs)
AuthListOwn == ListOwnWith(AuthInputs)
AuthUpdateStatus == UpdateStatusWith(AuthInputs)

NextAuth ==
    \/ AuthSubmit
    \/ AuthListApproved
    \/ AuthListOwn
    \/ AuthUpdateStatus
    \/ Issue
    \/ GenerateTestToken
    \/ Verify
    \/ Tick

SpecAuth == Init /\ [][NextAuth]_vars

-----------------------------------------------------------------------------
(* Vocabulary of the properties *)

ProtectedOps == {"submit", "list_approved", "list_own", "update_status"}

\* the claims a presented credential carries
ClaimsOf(header) == header[2].payload

\* the elements of a response's list
Listed(data) == {data[i] : i \in 1..Len(data)}

\* the answer is a list without repetition
NoRepeat(data) == \A i, j \in 1..Len(data) : i # j => data[i] # data[j]

Answered(op, code) == req.op = op /\ resp.code = code

-----------------------------------------------------------------------------
(* C1 *)

\* C1: in every step, a report whose status changes was pending before, is approved
\* or rejected after, and the step is an Update status; no step moves a report
\* back to pending.
C1_StatusOnlyLeavesPending ==
    [][\A id \in DOMAIN table \cap DOMAIN table' :
          table'[id].status # table[id].status =>
              /\ table[id].status = "pending"
              /\ table'[id].status \in {"approved", "rejected"}
              /\ req'.op = "update_status"]_vars

-----------------------------------------------------------------------------
(* C2 *)

\* C2 as stated: after a successful Submit the inserted row is pending, its
\* user_id, user_role, name, email and department are the credential's claims of
\* those names, and description and type are the body's.
C2_RowEqualsClaims ==
    Answered("submit", 201) =>
        LET row == table[resp.data[1].lnf_id]
            claims == ClaimsOf(req.header)
        IN
        /\ resp.data = <<row>>
        /\ row.status = "pending"
        /\ \A k \in {"user_id", "user_role", "name", "email", "department"} :
               k \in DOMAIN claims /\ row[k] = claims[k]
        /\ row.description = req.body.description
        /\ row.type = req.body.type

\* C2, amended: as above, except that department is the credential's department
\* claim when it carries one and "N/A" when it carries none.
C2_RowEqualsClaimsOrDefault ==
    Answered("submit", 201) =>
        LET row == table[resp.data[1].lnf_id]
            claims == ClaimsOf(req.header)
        IN
        /\ resp.data = <<row>>
        /\ row.status = "pending"
        /\ \A k \in {"user_id", "user_role", "name", "email"} :
               k \in DOMAIN claims /\ row[k] = claims[k]
        /\ row.department = IF "department" \in DOMAIN claims
                            THEN claims["department"] ELSE "N/A"
        /\ row.description = req.body.description
        /\ row.type = req.body.type

\* a Submit by a caller whose credential carries a department, and one by a caller
\* whose credential carries none, are both stored
C2_Witness ==
    /\ Answered("submit", 201)
    /\ "department" \notin DOMAIN ClaimsOf(req.header)
    /\ \E id \in DOMAIN table : table[id].department = "CS"

-----------------------------------------------------------------------------
(* C3 *)

\* C3: a successful List approved returns, once each, exactly the stored rows whose
\* status is approved and whose type is the filter's when a filter is given; no
\* pending or rejected row is in the answer.
C3_ListApprovedExact ==
    Answered("list_approved", 200) =>
        /\ NoRepeat(resp.data)
        /\ Listed(resp.data) =
               { table[id] : id \in { i \in DOMAIN table :
                     /\ table[i].status = "approved"
                     /\ (req.type \in RequestType => table[i].type = req.type) } }
        /\ \A i \in 1..Len(resp.data) : resp.data[i].status \notin {"pending", "rejected"}

\* a filtered List approved that returns a row while the store also holds a row
\* that is not approved
C3_Witness ==
    /\ Answered("list_approved", 200)
    /\ req.type \in RequestType
    /\ Len(resp.data) >= 1
    /\ \E id \in DOMAIN table : table[id].status # "approved"

-----------------------------------------------------------------------------
(* C4 *)

\* the request answered by this step passed validation and authentication and
\* met no store error
Served == resp.code \notin {400, 401, 422} /\ resp.outcome # "StoreError"

\* C4: an Update status on a report id that is in the store answers 200 with the
\* updated row, whose status is the requested value; no request other than Update
\* status and Create schema changes a stored status or removes a row; and every
\* List own returns each row of the caller as it is stored, every List approved
\* each approved row (of the filter's type) as it is stored.
C4_UpdateReflected ==
    [][/\ (req'.op = "update_status" /\ req'.request_id \in DOMAIN table /\ Served') =>
              /\ resp'.code = 200
              /\ DOMAIN table' = DOMAIN table
              /\ table'[req'.request_id].status = req'.status
              /\ resp'.data = <<table'[req'.request_id]>>
       /\ req'.op \notin {"update_status", "create_table"} =>
              \A id \in DOMAIN table :
                  id \in DOMAIN table' /\ table'[id].status = table[id].status
       /\ (req'.op = "list_own" /\ resp'.code = 200) =>
              \A id \in DOMAIN table' :
                  table'[id].user_id = ClaimsOf(req'.header)["user_id"]
                      => table'[id] \in Listed(resp'.data)
       /\ (req'.op = "list_approved" /\ resp'.code = 200) =>
              \A id \in DOMAIN table' :
                  (table'[id].status = "approved"
                       /\ (req'.type \in RequestType => table'[id].type = req'.type))
                      => table'[id] \in Listed(resp'.data)]_vars

\* a List own that returns a report with the status an Update status gave it
C4_Witness ==
    /\ Answered("list_own", 200)
    /\ \E i \in 1..Len(resp.data) : resp.data[i].status = "rejected"

-----------------------------------------------------------------------------
(* C5 *)

-----------------------------------------------------------------------------
(* C6 *)

IdentityFields == {"lnf_id", "user_id", "user_role", "name", "email", "department", "created_at"}

\* C6: no step changes the id, user_id, user_role, name, email, department or
\* created_at of a stored report; an Update status changes nothing of its row but
\* the status, and nothing of any other row.
C6_IdentityFrozen ==
    [][/\ \A id \in DOMAIN table \cap DOMAIN table' :
              /\ table[id].lnf_id = id
              /\ \A k \in IdentityFields : table'[id][k] = table[id][k]
       /\ req'.op = "update_status" =>
              /\ DOMAIN table' = DOMAIN table
              /\ \A id \in DOMAIN table :
                     /\ id # req'.request_id => table'[id] = table[id]
                     /\ \A k \in DOMAIN table[id] \ {"status"} :
                            table'[id][k] = table[id][k]]_vars

\* an Update status has changed one of two stored reports
C6_Witness ==
    /\ Answered("update_status", 200)
    /\ Cardinality(DOMAIN table) = 2
    /\ \E id \in DOMAIN table : id # req.request_id /\ table[id].status # req.status

-----------------------------------------------------------------------------
(* C7 *)

RequiredClaims == {"user_id", "user_role", "name", "email"}

CredentialMissing(header) == header = <<>>

\* the header carries no token, or one that is not a JWT signed with the secret
CredentialInvalid(header) ==
    /\ header # <<>>
    /\ \/ Len(header) < 2
       \/ ~header[2].wellformed
       \/ header[2].sig # SECRET_KEY

\* the token's client pair is not the configured one, compared ignoring case
ClientMismatch(header) ==
    /\ ~CredentialMissing(header)
    /\ ~CredentialInvalid(header)
    /\ \/ "client_id" \notin DOMAIN ClaimsOf(header)
       \/ "client_secret" \notin DOMAIN ClaimsOf(header)
       \/ Lower(ClaimsOf(header)["client_id"]) # Lower(CLIENT_CREDENTIALS.client_id)
       \/ Lower(ClaimsOf(header)["client_secret"]) # Lower(CLIENT_CREDENTIALS.client_secret)

Rejected(header) ==
    CredentialMissing(header) \/ CredentialInvalid(header) \/ ClientMismatch(header)

ClaimAbsent(header) ==
    /\ ~CredentialMissing(header)
    /\ ~CredentialInvalid(header)
    /\ \E k \in RequiredClaims : k \notin DOMAIN ClaimsOf(header)

ClaimAbsentOrEmpty(header) ==
    /\ ~CredentialMissing(header)
    /\ ~CredentialInvalid(header)
    /\ \E k \in RequiredClaims :
           k \notin DOMAIN ClaimsOf(header) \/ ClaimsOf(header)[k] = ""

\* the parameters and the body of the last request are of the declared shape
WellFormedRequest ==
    CASE req.op = "submit" ->
             /\ req.body.description \in 1..2000
             /\ req.body.type \in {"lost", "found"}
      [] req.op = "list_approved" -> req.type \in {None, "lost", "found"}
      [] req.op = "update_status" -> req.status \in {"pending", "approved", "rejected"}
      [] OTHER -> TRUE

\* C7 as stated: a protected handler answers 401 whenever the credential is
\* missing, invalid, of another client, or lacks one of user_id, user_role, name,
\* email.
C7_Always401 ==
    (req.op \in ProtectedOps /\ (Rejected(req.header) \/ ClaimAbsent(req.header)))
        => resp.code = 401

\* C7, amended: for a request whose parameters and body pass validation, a
\* protected handler answers 401 whenever the credential is missing, invalid or of
\* another client, and 400 whenever the credential is accepted but one of user_id,
\* user_role, name, email is absent from it or empty.
C7_401Or400 ==
    (req.op \in ProtectedOps /\ WellFormedRequest) =>
        /\ Rejected(req.header) => resp.code = 401
        /\ (~Rejected(req.header) /\ ClaimAbsentOrEmpty(req.header)) => resp.code = 400

\* a protected handler has answered 400 to an accepted credential without email
C7_Witness ==
    /\ req.op \in ProtectedOps
    /\ WellFormedRequest
    /\ ~Rejected(req.header)
    /\ "email" \notin DOMAIN ClaimsOf(req.header)
    /\ resp.code = 400

-----------------------------------------------------------------------------
(* C8 *)

ConfiguredPair(client_id, client_secret) ==
    /\ client_id = CLIENT_CREDENTIALS.client_id
    /\ client_secret = CLIENT_CREDENTIALS.client_secret

\* d is exactly the identity claims given to Issue plus the configured client pair
RoundTrip(d, user_data) ==
    /\ DOMAIN d = DOMAIN user_data \cup {"client_id", "client_secret"}
    /\ \A k \in DOMAIN user_data : d[k] = user_data[k]
    /\ d["client_id"] = CLIENT_CREDENTIALS.client_id
    /\ d["client_secret"] = CLIENT_CREDENTIALS.client_secret

\* C8: every credential Issue has returned for the configured pair is accepted by
\* Verify (the decorator's and the dependency's), which returns exactly the identity
\* claims given to Issue together with the configured client_id and client_secret;
\* and a Verify request that presents such a credential is answered so.
C8_IssueThenVerify ==
    /\ \A i \in issued :
           ConfiguredPair(i.client_id, i.client_secret) =>
               /\ TokenRequired(Bearer(i.token)).code = 200
               /\ RoundTrip(TokenRequired(Bearer(i.token)).decoded, i.user_data)
               /\ VerifyToken(i.token).code = 200
               /\ RoundTrip(VerifyToken(i.token).decoded, i.user_data)
    /\ req.op = "verify_token" =>
           \A i \in issued :
               (ConfiguredPair(i.client_id, i.client_secret) /\ req.header = Bearer(i.token))
                   => resp.code = 200 /\ RoundTrip(resp.decoded, i.user_data)

\* a Verify request has presented a credential that Issue returned for identity
\* claims without a department
C8_Witness ==
    /\ req.op = "verify_token"
    /\ resp.code = 200
    /\ \E i \in issued :
           /\ req.header = Bearer(i.token)
           /\ "user_id" \in DOMAIN i.user_data
           /\ "department" \notin DOMAIN i.user_data

-----------------------------------------------------------------------------
(* C9 *)

\* C9 as stated: Issue returns a credential only for the configured pair before
\* the cutoff; it fails with Unauthorized on any mismatch and with Expired at or
\* past the cutoff, and then returns no credential.
C9_IssueFailures ==
    req.op = "issue" =>
        /\ resp.token # NoToken =>
               ConfiguredPair(req.client_id, req.client_secret) /\ req.at < TOKEN_CUTOFF_DATE
        /\ ~ConfiguredPair(req.client_id, req.client_secret) =>
               resp.outcome = "Unauthorized" /\ resp.token = NoToken
        /\ req.at >= TOKEN_CUTOFF_DATE =>
               resp.outcome = "Expired" /\ resp.token = NoToken

\* C9, amended: as above, except that a mismatch fails with Unauthorized when the
\* time is before the cutoff (at or past the cutoff every call fails with Expired).
C9_IssueFailuresCutoffFirst ==
    req.op = "issue" =>
        /\ resp.token # NoToken =>
               ConfiguredPair(req.client_id, req.client_secret) /\ req.at < TOKEN_CUTOFF_DATE
        /\ (~ConfiguredPair(req.client_id, req.client_secret) /\ req.at < TOKEN_CUTOFF_DATE) =>
               resp.outcome = "Unauthorized" /\ resp.token = NoToken
        /\ req.at >= TOKEN_CUTOFF_DATE =>
               resp.outcome = "Expired" /\ resp.token = NoToken

\* Issue has refused a pair that differs from the configured one only in case
C9_Witness ==
    /\ req.op = "issue"
    /\ req.client_id = "CID"
    /\ req.at < TOKEN_CUTOFF_DATE
    /\ resp.outcome = "Unauthorized"

-----------------------------------------------------------------------------
(* C10 *)

\* C10: a successful List own returns, once each, exactly the stored rows whose
\* user_id is the user_id claim of the caller's credential, whatever their status,
\* newest first.
C10_ListOwnExact ==
    Answered("list_own", 200) =>
        /\ NoRepeat(resp.data)
        /\ Listed(resp.data) =
               { table[id] : id \in { i \in DOMAIN table :
                     table[i].user_id = ClaimsOf(req.header)["user_id"] } }
        /\ \A i, j \in 1..Len(resp.data) :
               i < j => resp.data[i].created_at >= resp.data[j].created_at

\* a List own that returns two reports created at different times, one of them
\* no longer pending
C10_Witness ==
    /\ Answered("list_own", 200)
    /\ Len(resp.data) = 2
    /\ resp.data[1].created_at > resp.data[2].created_at
    /\ resp.data[1].status # resp.data[2].status

-----------------------------------------------------------------------------
(* C11 *)

\* this step is a Submit that inserted a row and returned it
SubmitInserted ==
    /\ req'.op = "submit"
    /\ resp'.code = 201
    /\ table' # table

\* C11 as stated: over Submit, Update status and Create schema requests, every
\* Submit returns an id strictly greater than every id an earlier Submit has
\* returned, and an id that no earlier Submit has returned.
C11_IdsMonotone ==
    [][SubmitInserted =>
          /\ \A i \in assigned.ever : resp'.data[1].lnf_id > i
          /\ resp'.data[1].lnf_id \notin assigned.ever]_vars

\* C11, amended: every Submit returns an id strictly greater than every id a
\* Submit has returned since the last Create schema, an id that no stored report
\* has, and the stored reports keep distinct ids (Create schema restarts the
\* sequence, so an id returned before it can be returned again after it).
C11_IdsMonotoneSinceCreate ==
    [][SubmitInserted =>
          /\ \A i \in assigned.current : resp'.data[1].lnf_id > i
          /\ \A k \in DOMAIN table : table[k].lnf_id # resp'.data[1].lnf_id
          /\ \A j, k \in DOMAIN table' :
                 table'[j].lnf_id = table'[k].lnf_id => j = k]_vars

\* a Submit has returned the second id since the last Create schema, and both
\* reports are stored
C11_Witness ==
    /\ Answered("submit", 201)
    /\ resp.data[1].lnf_id = 2
    /\ assigned.current = {1, 2}
    /\ DOMAIN table = {1, 2}

-----------------------------------------------------------------------------
(* C12 *)

\* C12: in every state of the store, every stored report's user_role is one of
\* student, faculty, admin, alumni, public, whatever credential of Issue the
\* protected handlers have accepted.
C12_RoleInEnum ==
    \A r \in Rows : r.user_role \in UserRole

-----------------------------------------------------------------------------
(* C13 *)

\* C13: a credential Issue returned before the cutoff carries no expiration and
\* is accepted by Verify (the dependency's and the decorator's) at every later
\* time, the cutoff and after included: a Verify request that presents it is
\* answered with its payload, and no protected route answers it with 401.
C13_AcceptedAfterCutoff ==
    /\ \A i \in issued :
           i.at < TOKEN_CUTOFF_DATE =>
               /\ "exp" \notin DOMAIN i.token.payload
               /\ now >= i.at => /\ VerifyToken(i.token).code = 200
                                 /\ TokenRequired(Bearer(i.token)).code = 200
    /\ req.op = "verify_token" =>
           \A i \in issued :
               (i.at < TOKEN_CUTOFF_DATE /\ req.header = Bearer(i.token) /\ req.at >= i.at)
                   => resp.code = 200 /\ resp.decoded = i.token.payload
    /\ req.op \in ProtectedOps =>
           \A i \in issued :
               (i.at < TOKEN_CUTOFF_DATE /\ req.header = Bearer(i.token)) => resp.code # 401

\* at or past the cutoff, a Verify request has presented a credential that Issue
\* returned before the cutoff, and was answered 200
C13_Witness ==
    /\ req.op = "verify_token"
    /\ req.at >= TOKEN_CUTOFF_DATE
    /\ resp.code = 200
    /\ \E i \in issued :
           /\ i.at < TOKEN_CUTOFF_DATE
           /\ req.header = Bearer(i.token)

====
